---- MODULE Spec2Model ----
(***************************************************************************)
(* Usage metering, quota gate and temp-file lifecycle of the media API     *)
(* gateway (backend/main.py, backend/src/services/db_service.py,           *)
(* backend/src/asr, backend/src/converter).                                *)
(*                                                                         *)
(* Units.  Timestamps of transcription segments are in milliseconds.       *)
(* Minutes are fixed-point, in 1/1000 of a minute: 10.0 minutes is 10000,  *)
(* 9.999 minutes is 9999, 1.5 minutes is 1500.  duration_seconds / 60.0    *)
(* is therefore (milliseconds \div 60).                                    *)
(*                                                                         *)
(* An optional value (Python None or a value) is a sequence of length 0    *)
(* or 1.                                                                   *)
(***************************************************************************)
EXTENDS Integers, Sequences, FiniteSets, TLC

\* ------------------------------------------------------------------ bounds
\* Number of update_usage_metrics calls issued in the ledger specifications.
NumCalls == 3
\* Number of requests the server receives in one behaviour.
MaxRequests == 2
\* Number of DBService method calls made outside a request.
MaxStoreCalls == 3
\* Number of backend getter calls made in one server process.
MaxGets == 3
\* Number of progress events one downloader receives.
MaxHooks == 3

\* ------------------------------------------------------------- constants
\* MONTHLY_LIMIT_MINUTES = 10.0, in 1/1000 minute.
MONTHLY_LIMIT_MINUTES == 10000

NoUser == "anonymous"
Users == {"u1"}
NoRow == << >>

\* Deltas the ledger specifications draw their calls from: (minutes, bytes).
MinutesDeltas == {0, 1500}
BytesDeltas == {3, 5}
Deltas == [minutes_added : MinutesDeltas, storage_added_bytes : BytesDeltas]

\* Usage rows a store can hold before the modelled calls begin.
InitialRows ==
  { << >>,
    << [minutes_processed |-> 9999, storage_used_bytes |-> 7] >>,
    << [minutes_processed |-> 10000, storage_used_bytes |-> 7] >> }

Calls == 1..NumCalls

\* Processes that share the store and the filesystem: server processes, each
\* running one handler at a time (the handlers are coroutines that never
\* await) with its own module globals, and runs of the command-line programs.  They are interchangeable: a request goes to the
\* lowest idle one.
Workers == {1, 2}

\* Uploaded files: Path(file.filename) as stem and suffix.
NoFile == [stem |-> "", suffix |-> ""]
Uploads ==
  { [stem |-> "clip", suffix |-> ".wav"],
    [stem |-> "beep", suffix |-> ".MP4"],
    [stem |-> "mute", suffix |-> ".mp3"] }

\* os.path.getsize of the staged copy of an upload.
FileSize(f) ==
  CASE f.stem = "clip" -> 3
    [] f.stem = "beep" -> 5
    [] OTHER -> 1

\* What the transcription backend returns for an upload: the segments with
\* their start and end (milliseconds) and the wall-clock processing_time
\* (milliseconds).  "clip" is a 90-second clip, "beep" and "talk" are videos
\* whose speech ends after 0.06 and 120 seconds, "mute" has no speech.
Transcript(f) ==
  CASE f.stem = "clip" ->
         [segments |-> << [start |-> 0, end |-> 30000], [start |-> 30000, end |-> 90000] >>,
          processing_time |-> 4020]
    [] f.stem = "beep" ->
         [segments |-> << [start |-> 0, end |-> 60] >>, processing_time |-> 90000]
    [] f.stem = "talk" ->
         [segments |-> << [start |-> 600, end |-> 120000] >>, processing_time |-> 90000]
    [] OTHER -> [segments |-> << >>, processing_time |-> 1200]

\* Videos that lie on the machine and are named by path on a command line.
ServerVideos ==
  { [dir |-> "/media", stem |-> "talk", suffix |-> ".mp4"],
    [dir |-> "/archive", stem |-> "talk", suffix |-> ".mkv"] }

\* Authorization headers a request can carry; the empty string is no header.
NoHeader == ""
AuthHeaders == {NoHeader, "Bearer tok1", "Bearer forged"}

VARIABLES
  usage,       \* table usage_metrics: user |-> sequence of rows, in row order
  usage0,      \* the table before the modelled calls (never changes)
  callArgs,    \* ledger call c |-> its (minutes_added, storage_added_bytes)
  callPc,      \* ledger call c |-> "ready", "fetched", "done"
  callCur,     \* ledger call c |-> what its fetch returned (optional row)
  callRaised,  \* ledger call c |-> a store request of the call raised
  client,      \* db_service.client is not None
  transcriber, \* worker w |-> asr.api._transcriber is not None in that process
  fs,          \* the paths that exist in the filesystem
  serial,      \* requests received so far (names the next temporary file)
  req,         \* worker w |-> the transcribe_endpoint request it is running
  tr,          \* a TextTranslator instance and its last translate_text call
  pipe,        \* a transcription pipeline invocation (transcribe_audio and caller)
  sm,          \* a ContentProcessor.summarize call
  db,          \* a call of a DBService method made outside a request
  backends,    \* the lazily created backend objects of one server process
  dl           \* a downloader and its progress bar

callVars == <<callArgs, callPc, callCur, callRaised>>
reqVars == <<client, transcriber, fs, serial, req>>
svcVars == <<db, backends, dl>>
textVars == <<tr, pipe, sm, svcVars>>
vars == <<usage, usage0, callArgs, callPc, callCur, callRaised,
          client, transcriber, fs, serial, req, tr, pipe, sm, db, backends, dl>>

\* ------------------------------------------------- DBService (db_service.py)

Row(m, b) == [minutes_processed |-> m, storage_used_bytes |-> b]

GetUsageMetricsUnguarded(table, clientUp, user_id, raised) ==
  IF raised THEN NoRow
  ELSE IF Len(table[user_id]) > 0 THEN << table[user_id][1] >>
  ELSE NoRow

\* get_usage_metrics: None without a client, None when the select raises,
\* response.data[0] when rows came back, None otherwise.
GetUsageMetrics(table, clientUp, user_id, raised) ==
  IF ~clientUp THEN NoRow
  ELSE IF raised THEN NoRow
  ELSE IF Len(table[user_id]) > 0 THEN << table[user_id][1] >>
  ELSE NoRow

\* table("usage_metrics").insert({...}).execute(): a plain insert, one more row.
InsertUsageRow(table, user_id, m, b) ==
  [table EXCEPT ![user_id] = Append(@, Row(m, b))]

\* table("usage_metrics").update({...}).eq("user_id", user_id).execute():
\* every row of the user takes the new values.
UpdateUsageRows(table, user_id, m, b) ==
  [table EXCEPT ![user_id] = [i \in DOMAIN @ |-> Row(m, b)]]

NewMinutesOverwrite(current, minutes_added) == minutes_added

\* new_minutes = (current.get('minutes_processed') or 0) + minutes_added
NewMinutes(current, minutes_added) ==
  current[1].minutes_processed + minutes_added

\* new_storage = (current.get('storage_used_bytes') or 0) + storage_added_bytes
NewStorage(current, storage_added_bytes) ==
  current[1].storage_used_bytes + storage_added_bytes

\* The write half of update_usage_metrics, after `current` was fetched: insert
\* when `not current`, update otherwise; a raising store request is caught and
\* leaves the table as it was.
WriteUsageMetrics(table, user_id, current, minutes_added, storage_added_bytes, raised) ==
  IF raised THEN table
  ELSE IF current = NoRow
    THEN InsertUsageRow(table, user_id, minutes_added, storage_added_bytes)
    ELSE UpdateUsageRows(table, user_id,
                         NewMinutes(current, minutes_added),
                         NewStorage(current, storage_added_bytes))

\* upload_file: None without a client, None when the file is missing, None
\* when the storage request raises, the storage path (the file name) otherwise.
UploadFile(clientUp, file_path, exists, raised) ==
  IF ~clientUp THEN << >>
  ELSE IF ~exists THEN << >>
  ELSE IF raised THEN << >>
  ELSE << file_path.stem \o file_path.suffix >>

\* save_file_record: None without a client or when the insert raises, the
\* response otherwise; the response is modelled by the id of the new row.
SaveFileRecord(clientUp, storage_path, raised) ==
  IF ~clientUp THEN << >>
  ELSE IF raised THEN << >>
  ELSE << "id:" \o storage_path >>

\* ------------------------------------------------------ gate (main.py)

\* get_current_user: no header gives no user; otherwise the token is looked
\* up with db_service.client.auth.get_user, and every failure (no client, a
\* raising request, an unknown token) ends in 401.
StripBearer(authorization) ==
  CASE authorization = "Bearer tok1" -> "tok1"
    [] authorization = "Bearer forged" -> "forged"
    [] OTHER -> authorization

SessionUser(token) == IF token = "tok1" THEN "u1" ELSE NoUser

GetCurrentUser(authorization, clientUp, raised) ==
  IF authorization = NoHeader THEN [status |-> 0, user_id |-> NoUser]
  ELSE IF ~clientUp \/ raised \/ SessionUser(StripBearer(authorization)) = NoUser
    THEN [status |-> 401, user_id |-> NoUser]
    ELSE [status |-> 0, user_id |-> SessionUser(StripBearer(authorization))]

CheckQuotaStrict(user_id, metrics) ==
  /\ user_id # NoUser
  /\ metrics # NoRow
  /\ metrics[1].minutes_processed > MONTHLY_LIMIT_MINUTES

CheckQuotaNeverRaises(user_id, metrics) == FALSE

CheckQuotaFailsClosed(user_id, metrics) ==
  /\ user_id # NoUser
  /\ metrics = NoRow \/ metrics[1].minutes_processed >= MONTHLY_LIMIT_MINUTES

\* check_quota, given what get_usage_metrics returned: TRUE when it raises the
\* 403 HTTPException.
CheckQuota(user_id, metrics) ==
  /\ user_id # NoUser
  /\ metrics # NoRow
  /\ metrics[1].minutes_processed >= MONTHLY_LIMIT_MINUTES

\* ------------------------------------------------- transcription pipeline

VideoSuffixes == {".mp4", ".mkv", ".avi", ".mov"}

\* str.lower on the suffixes of the modelled uploads.
Lower(suffix) == IF suffix = ".MP4" THEN ".mp4" ELSE suffix

IsVideo(f) == Lower(f.suffix) \in VideoSuffixes

\* tempfile.NamedTemporaryFile(delete=False, suffix=suffix): a fresh name.
TempPath(n, suffix) ==
  [dir |-> "/tmp", stem |-> "tmp" \o ToString(n), suffix |-> suffix]

\* extract_audio_from_video: output_dir / f"{input_path.stem}_audio.{audio_format}"
ExtractedAudioPath(output_dir, input_path, audio_format) ==
  [dir |-> output_dir, stem |-> input_path.stem \o "_audio", suffix |-> "." \o audio_format]

\* get_transcriber: the cached instance, or a new one; a failing constructor
\* raises HTTPException(500).  initOk is whether AudioTranscriber() succeeds.
GetTranscriber(ready, initOk) ==
  [ok |-> ready \/ initOk, ready |-> ready \/ initOk]

DurationFromProcessingTime(result) == result.processing_time

\* duration_seconds = result.segments[-1].end if result.segments else 0
DurationSeconds(result) ==
  IF Len(result.segments) > 0 THEN result.segments[Len(result.segments)].end ELSE 0

\* minutes = duration_seconds / 60.0 (milliseconds to 1/1000 minute)
MinutesOf(duration_seconds) == duration_seconds \div 60


\* The extensions the two /asr/transcribe/*/upload endpoints accept.
AllowedAudioExtensions == {".wav", ".mp3", ".flac", ".m4a", ".ogg", ".aac"}
AllowedVideoExtensions == {".mp4", ".avi", ".mkv", ".mov", ".wmv", ".flv", ".webm"}

\* The converter endpoints stage an upload at temp_dir / f"input_{file.filename}".
StagedInputPath(f) ==
  [dir |-> "./temp", stem |-> "input_" \o f.stem, suffix |-> f.suffix]

\* convert_audio_format: output_dir / f"{input_path.stem}.{output_format}"
ConvertedPath(output_dir, input_path, output_format) ==
  [dir |-> output_dir, stem |-> input_path.stem, suffix |-> "." \o output_format]

\* ---------------------------------------------------------------- handlers
\* One record per worker: the request it is running.  endpoint is
\* "transcribe" (main.py), "asr_upload_audio", "asr_upload_video" (asr/api.py),
\* "convert_audio" (converter/api.py) or "cli_video" (transcribe_video.py, where
\* status 200 stands for exit status 0 and 500 for exit status 1).

IdleReq ==
  [endpoint |-> "", pc |-> "idle", user_id |-> NoUser, file |-> NoFile,
   input_path |-> << >>, temp_path |-> << >>, temp_audio_path |-> << >>,
   result |-> << >>, quota |-> << >>, current |-> << >>, usage_args |-> << >>,
   file_id |-> << >>, status |-> 0, transcriber_calls |-> 0, usage_calls |-> 0,
   background |-> FALSE]

Set(w, r) == req' = [req EXCEPT ![w] = r]

Without(files, path) == files \ {path[i] : i \in DOMAIN path}

OnExceptionAsForbidden(w, r, files) ==
  /\ fs' = Without(files, r.temp_path)
  /\ Set(w, [r EXCEPT !.pc = "done", !.status = 403])

\* except Exception: unlink the staged file if there is one and it exists,
\* answer 500.
OnException(w, r, files) ==
  /\ fs' = Without(files, r.temp_path)
  /\ Set(w, [r EXCEPT !.pc = "done", !.status = 500])

\* except HTTPException: main.py re-raises as is; the asr upload endpoints
\* unlink the staged file first.
OnHttpException(w, r, files, status_code) ==
  /\ fs' = IF r.endpoint = "transcribe" THEN files ELSE Without(files, r.temp_path)
  /\ Set(w, [r EXCEPT !.pc = "done", !.status = status_code])

\* The normal end of transcribe_endpoint: remove the staged file, return.
Finish(w, r, files) ==
  /\ fs' = Without(files, r.temp_path)
  /\ Set(w, [r EXCEPT !.pc = "done", !.status = 200])

\* The transcriber returned.  transcribe_endpoint goes on to persistence; the
\* asr endpoints return the result, and the response then runs the
\* background tasks that were added.
OnTranscribed(w, r, files) ==
  /\ fs' = files
  /\ Set(w, [r EXCEPT !.result = << Transcript(r.file) >>,
                      !.status = IF r.endpoint = "transcribe" THEN 0 ELSE 200,
                      !.pc = CASE r.endpoint = "transcribe" -> "analysed"
                               [] r.endpoint = "cli_video" -> "done"
                               [] OTHER -> "returned"])

UsesVideoPipeline(r) ==
  CASE r.endpoint = "transcribe" -> IsVideo(r.file)
    [] r.endpoint = "asr_upload_video" -> TRUE
    [] r.endpoint = "cli_video" -> TRUE
    [] OTHER -> FALSE

CanReceive(w) ==
  /\ req[w].pc = "idle"
  /\ \A v \in Workers : v < w => req[v].pc # "idle"
  /\ serial < MaxRequests

\* POST /transcribe arrives: get_current_user, then check_quota for a known
\* user, then the upload is copied to a fresh temporary file.
Receive(w, authorization, f, authRaised, fetchRaised) ==
  /\ CanReceive(w)
  /\ serial' = serial + 1
  /\ LET who == GetCurrentUser(authorization, client, authRaised)
         metrics == GetUsageMetrics(usage, client, who.user_id, fetchRaised)
         r == [IdleReq EXCEPT !.endpoint = "transcribe", !.user_id = who.user_id, !.file = f]
         temp == TempPath(serial + 1, f.suffix)
     IN IF who.status = 401
          THEN Set(w, [r EXCEPT !.pc = "done", !.status = 401]) /\ fs' = fs
        ELSE IF who.user_id # NoUser /\ CheckQuota(who.user_id, metrics)
          THEN /\ Set(w, [r EXCEPT !.pc = "done", !.status = 403, !.quota = << metrics >>])
               /\ fs' = fs
        ELSE /\ Set(w, [r EXCEPT !.pc = "staged", !.temp_path = << temp >>,
                                 !.input_path = << temp >>,
                                 !.quota = IF who.user_id # NoUser THEN << metrics >> ELSE << >>])
             /\ fs' = fs \cup {temp}
  /\ UNCHANGED <<usage, usage0, callVars, client, transcriber>>

\* POST /asr/transcribe/audio/upload or /asr/transcribe/video/upload arrives:
\* the extension is validated, the upload is copied to a fresh temporary file,
\* and its unlink is added to the background tasks when there are any.
ReceiveUpload(w, endpoint, f, hasBackgroundTasks) ==
  /\ CanReceive(w)
  /\ serial' = serial + 1
  /\ LET file_ext == Lower(f.suffix)
         allowed == IF endpoint = "asr_upload_audio" THEN AllowedAudioExtensions
                    ELSE AllowedVideoExtensions
         r == [IdleReq EXCEPT !.endpoint = endpoint, !.file = f]
         temp == TempPath(serial + 1, file_ext)
     IN IF file_ext \notin allowed
          THEN OnHttpException(w, r, fs, 400)
          ELSE /\ Set(w, [r EXCEPT !.pc = "staged", !.temp_path = << temp >>,
                                   !.input_path = << temp >>,
                                   !.background = hasBackgroundTasks])
               /\ fs' = fs \cup {temp}
  /\ UNCHANGED <<usage, usage0, callVars, client, transcriber>>

\* transcribe_video.py is started on a video that exists: the path is
\* validated, then AudioTranscriber() and transcribe_video follow.
ReceiveVideo(w, video_path) ==
  /\ CanReceive(w)
  /\ serial' = serial + 1
  /\ Set(w, [IdleReq EXCEPT !.endpoint = "cli_video", !.pc = "staged",
                            !.file = [stem |-> video_path.stem, suffix |-> video_path.suffix],
                            !.input_path = << video_path >>])
  /\ UNCHANGED <<usage, usage0, callVars, client, transcriber, fs>>

\* POST /converter/convert/audio arrives: the upload is written to
\* ./temp/input_<filename>.
ReceiveConvert(w, f) ==
  /\ CanReceive(w)
  /\ serial' = serial + 1
  /\ LET r == [IdleReq EXCEPT !.endpoint = "convert_audio", !.file = f]
         input_path == StagedInputPath(f)
     IN IF f.stem \o f.suffix = ""
          THEN OnHttpException(w, r, fs, 400)
          ELSE /\ Set(w, [r EXCEPT !.pc = "converting", !.input_path = << input_path >>])
               /\ fs' = fs \cup {input_path}
  /\ UNCHANGED <<usage, usage0, callVars, client, transcriber>>

\* convert_audio, after staging: convert_audio_format (None when the input is
\* missing or ffmpeg fails), then input_path.unlink(missing_ok=True).
Convert(w, output_format, ffmpegOk) ==
  /\ req[w].pc = "converting"
  /\ LET r == req[w]
         output_path == ConvertedPath("./converted", r.input_path[1], output_format)
         converted == r.input_path[1] \in fs /\ ffmpegOk
     IN /\ fs' = Without(IF converted THEN fs \cup {output_path} ELSE fs, r.input_path)
        /\ Set(w, [r EXCEPT !.pc = "done", !.status = IF converted THEN 200 ELSE 500])
  /\ UNCHANGED <<usage, usage0, callVars, client, transcriber, serial>>

\* get_transcriber() and transcriber.transcribe_audio(path) for a request that
\* does not take the video pipeline.
TranscribeAudio(w, initOk, backendOk) ==
  /\ req[w].pc = "staged"
  /\ ~UsesVideoPipeline(req[w])
  /\ LET got == GetTranscriber(transcriber[w], initOk)
         r == req[w]
         called == [r EXCEPT !.transcriber_calls = @ + 1]
     IN /\ transcriber' = [transcriber EXCEPT ![w] = got.ready]
        /\ IF ~got.ok THEN OnHttpException(w, r, fs, 500)
           ELSE IF ~(r.input_path[1] \in fs /\ backendOk) THEN OnException(w, called, fs)
           ELSE OnTranscribed(w, called, fs)
  /\ UNCHANGED <<usage, usage0, callVars, client, serial>>

\* get_transcriber() (in the command-line program a new AudioTranscriber())
\* and the first half of transcriber.transcribe_video: the audio track is
\* extracted into the converter's output directory.
ExtractAudio(w, initOk, extractOk) ==
  /\ req[w].pc = "staged"
  /\ UsesVideoPipeline(req[w])
  /\ LET r == req[w]
         cli == r.endpoint = "cli_video"
         got == GetTranscriber(IF cli THEN FALSE ELSE transcriber[w], initOk)
         called == [r EXCEPT !.transcriber_calls = @ + 1]
         audio == ExtractedAudioPath("./converted", r.input_path[1], "wav")
     IN /\ transcriber' = IF cli THEN transcriber ELSE [transcriber EXCEPT ![w] = got.ready]
        /\ IF ~got.ok THEN OnHttpException(w, r, fs, 500)
           ELSE IF r.input_path[1] \notin fs
             THEN OnException(w, called, fs)
           ELSE IF ~extractOk THEN OnException(w, called, fs)
           ELSE /\ Set(w, [called EXCEPT !.pc = "extracted", !.temp_audio_path = << audio >>])
                /\ fs' = fs \cup {audio}
  /\ UNCHANGED <<usage, usage0, callVars, client, serial>>

KeepExtractedAudio(files, temp_audio_path) == files

\* finally: the extracted audio file is unlinked if it exists.
UnlinkExtractedAudio(files, temp_audio_path) == Without(files, temp_audio_path)

\* The second half of transcribe_video: transcribe_audio on the extracted
\* file, then the finally clause; an exception goes on to the handler.
TranscribeExtracted(w, backendOk) ==
  /\ req[w].pc = "extracted"
  /\ LET r == req[w]
         left == UnlinkExtractedAudio(fs, r.temp_audio_path)
     IN IF ~(r.temp_audio_path[1] \in fs /\ backendOk) THEN OnException(w, r, left)
        ELSE OnTranscribed(w, r, left)
  /\ UNCHANGED <<usage, usage0, callVars, client, transcriber, serial>>

PersistRaising(w, uploadRaised, saveRaised) ==
  /\ req[w].pc = "analysed"
  /\ LET r == req[w]
         storage_path == UploadFile(client, r.temp_path[1], r.temp_path[1] \in fs, uploadRaised)
         db_response == IF storage_path = << >> THEN << >>
                        ELSE SaveFileRecord(client, storage_path[1], saveRaised)
         saved == [r EXCEPT !.file_id = db_response]
     IN IF r.temp_path[1] \notin fs \/ (client /\ (uploadRaised \/ saveRaised))
          THEN OnException(w, r, fs)
        ELSE IF r.user_id # NoUser
          THEN Set(w, [saved EXCEPT !.pc = "persisted"]) /\ fs' = fs
          ELSE Finish(w, saved, fs)
  /\ UNCHANGED <<usage, usage0, callVars, client, transcriber, serial>>

\* transcribe_endpoint: os.path.getsize, upload_file and save_file_record;
\* without a user the handler then removes the staged file and returns.
Persist(w, uploadRaised, saveRaised) ==
  /\ req[w].pc = "analysed"
  /\ LET r == req[w]
         storage_path == UploadFile(client, r.temp_path[1], r.temp_path[1] \in fs, uploadRaised)
         db_response == IF storage_path = << >> THEN << >>
                        ELSE SaveFileRecord(client, storage_path[1], saveRaised)
         saved == [r EXCEPT !.file_id = db_response]
     IN IF r.temp_path[1] \notin fs THEN OnException(w, r, fs)
        ELSE IF r.user_id # NoUser
          THEN Set(w, [saved EXCEPT !.pc = "persisted"]) /\ fs' = fs
          ELSE Finish(w, saved, fs)
  /\ UNCHANGED <<usage, usage0, callVars, client, transcriber, serial>>

UsageFetchSkipped(w, raised) ==
  /\ req[w].pc = "persisted"
  /\ Finish(w, req[w], fs)
  /\ UNCHANGED <<usage, usage0, callVars, client, transcriber, serial>>

\* transcribe_endpoint: update_usage_metrics(user_id, minutes, file_size),
\* up to its first store request.
UsageFetch(w, raised) ==
  /\ req[w].pc = "persisted"
  /\ LET r == req[w]
         minutes == MinutesOf(DurationSeconds(r.result[1]))
         called == [r EXCEPT !.usage_calls = @ + 1,
                             !.usage_args = << [minutes_added |-> minutes,
                                                storage_added_bytes |-> FileSize(r.file)] >>]
     IN IF ~client THEN Finish(w, called, fs)
        ELSE /\ Set(w, [called EXCEPT !.pc = "fetched",
                          !.current = GetUsageMetrics(usage, client, r.user_id, raised)])
             /\ fs' = fs
  /\ UNCHANGED <<usage, usage0, callVars, client, transcriber, serial>>

\* update_usage_metrics, second store request; the handler then removes the
\* staged file and returns.
UsageWrite(w, raised) ==
  /\ req[w].pc = "fetched"
  /\ LET r == req[w]
     IN /\ usage' = WriteUsageMetrics(usage, r.user_id, r.current,
                                      r.usage_args[1].minutes_added,
                                      r.usage_args[1].storage_added_bytes, raised)
        /\ Finish(w, r, fs)
  /\ UNCHANGED <<usage0, callVars, client, transcriber, serial>>

\* An asr upload endpoint has returned: the background tasks of the response
\* run, Path(temp_path).unlink(missing_ok=True) among them when it was added.
RunBackground(w) ==
  /\ req[w].pc = "returned"
  /\ fs' = IF req[w].background THEN Without(fs, req[w].temp_path) ELSE fs
  /\ Set(w, [req[w] EXCEPT !.pc = "done"])
  /\ UNCHANGED <<usage, usage0, callVars, client, transcriber, serial>>

\* The response has been sent; the worker is free for the next request.
Respond(w) ==
  /\ req[w].pc = "done"
  /\ Set(w, IdleReq)
  /\ UNCHANGED <<usage, usage0, callVars, client, transcriber, fs, serial>>

\* ------------------------------------------------ translation (translation.py)

\* _should_use_context: len(text) > 4000.
ContextThreshold == 4000
\* _translate_google: len(text) > 5000, text[:5000].
GoogleLimit == 5000

\* A text is given by the source it is cut from and its length: the first len
\* characters of that source.
Text(src, len) == [src |-> src, len |-> len]

\* text[:n]
Prefix(text, n) == [text EXCEPT !.len = IF @ > n THEN n ELSE @]

\* What a backend returns for the text it was sent.
Translated(backend, sent) == [by |-> backend, of |-> sent]

ShouldUseContextInclusive(text) == text.len >= ContextThreshold

\* _should_use_context
ShouldUseContext(text) == text.len > ContextThreshold

TruncateNot(text) == text

\* _translate_google: the text is cut to the limit before the call.
Truncate(text) == IF text.len > GoogleLimit THEN Prefix(text, GoogleLimit) ELSE text

\* _translate_google: every exception of the call is caught and gives None.
\* googleOk is whether GoogleTranslator(...).translate(text) returns.
TranslateGoogle(text, googleOk) ==
  LET sent == Truncate(text)
  IN [out |-> IF googleOk THEN << Translated("google", sent) >> ELSE << >>,
      calls |-> << [backend |-> "google", text |-> text, sent |-> sent] >>,
      raised |-> FALSE]

\* _load_nllb_model: loaded when the dependencies are there and loading works.
LoadNllbModel(loaded, nllbAvailable, loadOk) == loaded \/ (nllbAvailable /\ loadOk)

\* _translate_nllb: load the model on first use; without a model, or when
\* tokenizing or generating raises, fall back to _translate_google.
TranslateNllb(text, loaded, nllbAvailable, loadOk, nllbOk, googleOk) ==
  LET nowLoaded == LoadNllbModel(loaded, nllbAvailable, loadOk)
      generate == << [backend |-> "nllb", text |-> text, sent |-> text] >>
      fallback == TranslateGoogle(text, googleOk)
  IN IF ~nowLoaded
       THEN [fallback EXCEPT !.calls = << >> \o @] @@ [nllb_loaded |-> FALSE]
     ELSE IF ~nllbOk
       THEN [fallback EXCEPT !.calls = generate \o @] @@ [nllb_loaded |-> TRUE]
     ELSE [out |-> << Translated("nllb", text) >>, calls |-> generate,
           raised |-> FALSE, nllb_loaded |-> TRUE]

\* translate_text: context is switched on for long texts; then the backend.
TranslateText(text, context, loaded, nllbAvailable, loadOk, nllbOk, googleOk) ==
  IF context \/ ShouldUseContext(text)
    THEN TranslateNllb(text, loaded, nllbAvailable, loadOk, nllbOk, googleOk)
           @@ [route |-> "nllb"]
    ELSE TranslateGoogle(text, googleOk) @@ [route |-> "google", nllb_loaded |-> loaded]

\* Texts handed to translate_text.
TextLengths == {12, 3999, 4000, 4001, 4500, 5000, 5001}
TextSources == {"doc", "note"}
Texts == {Text(src, n) : src \in TextSources, n \in TextLengths}

\* A TextTranslator that has made no call.  nllbAvailable is NLLB_AVAILABLE of
\* the process.
NewTranslator(nllbAvailable) ==
  [nllb_available |-> nllbAvailable, nllb_loaded |-> FALSE, pc |-> "idle",
   text |-> Text("", 0), context |-> FALSE, route |-> "", calls |-> << >>,
   out |-> << >>, raised |-> FALSE]

\* translator.translate_text(text, target_language, context) is called and
\* returns.
TranslateCall(text, context, loadOk, nllbOk, googleOk) ==
  /\ tr.pc = "idle"
  /\ LET res == TranslateText(text, context, tr.nllb_loaded, tr.nllb_available,
                              loadOk, nllbOk, googleOk)
     IN tr' = [tr EXCEPT !.pc = "done", !.text = text, !.context = context,
                         !.route = res.route, !.calls = res.calls, !.out = res.out,
                         !.raised = res.raised, !.nllb_loaded = res.nllb_loaded]
  /\ UNCHANGED <<usage, usage0, callVars, reqVars, svcVars, pipe, sm>>

\* The caller has taken the result; the instance is free for the next call.
TranslateReturn ==
  /\ tr.pc = "done"
  /\ tr' = [NewTranslator(tr.nllb_available) EXCEPT !.nllb_loaded = tr.nllb_loaded]
  /\ UNCHANGED <<usage, usage0, callVars, reqVars, svcVars, pipe, sm>>

\* --------------------------- enrichment pipeline (asr/core.py and its callers)

\* Who runs the pipeline: POST /asr/transcribe/audio (asr/api.py), the
\* transcribe_video.py program, POST /ocr/extract (ocr/api.py).
PipeKinds == {"asr_api", "cli", "ocr_api"}

\* Lengths of the segment texts the analysis returns: nothing, one short
\* segment, one segment of 4500 characters, two segments whose join is 4500.
Transcripts == { << >>, << 12 >>, << 4500 >>, << 2249, 2250 >> }

SegmentNames == << "seg1", "seg2" >>

\* result["segments"] of model.transcribe: one text per segment.
Segments(lengths) == [i \in DOMAIN lengths |-> Text(SegmentNames[i], lengths[i])]

\* " ".join(parts), with the "[Video: name] " prefix transcribe_video puts in
\* front of the text.
Join(parts, video) == [parts |-> parts, video |-> video]

\* len(" ".join(parts))
RECURSIVE JoinLen(_)
JoinLen(parts) ==
  IF parts = << >> THEN 0
  ELSE IF Len(parts) = 1 THEN parts[1].len
  ELSE Head(parts).len + 1 + JoinLen(Tail(parts))

\* What the process can import: TRANSLATION_AVAILABLE of asr/core.py,
\* LANGDETECT_AVAILABLE and NLLB_AVAILABLE of translation.py.
Environments ==
  [translation_available : BOOLEAN, langdetect : BOOLEAN, nllb_available : BOOLEAN]

\* How the calls on one text go: see TranslateText.
Outcomes == [loadOk : BOOLEAN, nllbOk : BOOLEAN, googleOk : BOOLEAN]

\* The loop over the segments on one TextTranslator: translate_text on each
\* segment text in order, the NLLB model staying loaded once it is.
RECURSIVE TranslateSegments(_, _, _, _, _, _)
TranslateSegments(segs, i, loaded, context, nllbAvailable, outs) ==
  IF i > Len(segs) THEN [values |-> << >>, calls |-> << >>]
  ELSE LET r == TranslateText(segs[i], context, loaded, nllbAvailable,
                              outs[i].loadOk, outs[i].nllbOk, outs[i].googleOk)
           rest == TranslateSegments(segs, i + 1, r.nllb_loaded, context,
                                     nllbAvailable, outs)
       IN [values |-> << r.out >> \o rest.values, calls |-> r.calls \o rest.calls]

\* The string "NA".
Placeholder == Translated("placeholder", Text("NA", 2))

\* segment.translated_text: the translation, "NA" when translate_text gave None.
SegmentTranslation(out) == IF out # << >> THEN out[1] ELSE Placeholder

\* Names bound in module asr/core.py that transcribe_audio reads as globals.
CoreGlobals == {"TRANSLATION_AVAILABLE", "TextTranslator", "whisperx", "torch",
                "logger", "TranscriptionResult", "TranscriptionSegment",
                "WordTimestamp", "print_iterator", "time", "Path"}

\* Exception classes raised below; all of them derive from Exception.
ExceptionClasses == {"HTTPException", "ImportError", "NameError", "RuntimeError"}

ExceptExceptionButHttp(exc) == exc \in ExceptionClasses /\ exc # "HTTPException"

\* except Exception
ExceptException(exc) == exc \in ExceptionClasses

\* No pipeline running.
IdlePipe ==
  [pc |-> "idle", kind |-> "", translate |-> FALSE, context |-> FALSE,
   correct_typos |-> FALSE, summarize |-> FALSE,
   env |-> [translation_available |-> FALSE, langdetect |-> FALSE,
            nllb_available |-> FALSE],
   segs |-> << >>, text |-> << >>, translated_text |-> << >>,
   translation_failed |-> FALSE, summarized_content |-> << >>,
   summary_failed |-> "", log |-> << >>, raised |-> "", failed_at |-> "",
   status |-> ""]

PipeLog(p, event) == [p EXCEPT !.log = Append(@, event)]

\* The exception leaves transcribe_audio / the handler: the request ends in
\* an error (HTTP 500, or exit status 1 of the program).
PipeRaise(p, exc, stage) ==
  [p EXCEPT !.pc = "failed", !.raised = exc, !.failed_at = stage, !.status = "error"]

\* A request arrives.  The audio endpoint passes translate_to=None to
\* transcribe_audio; the program passes --translate and --context and has no
\* typo option; the image endpoint has its own translate flag.
PipeStart(kind, translate, context, correctTypos, summarize, env, lengths) ==
  /\ pipe.pc = "idle"
  /\ kind = "asr_api" => ~translate
  /\ kind # "asr_api" => ~correctTypos
  /\ kind = "ocr_api" => Len(lengths) <= 1
  /\ pipe' = [IdlePipe EXCEPT !.pc = IF kind = "cli" THEN "started" ELSE "extracted",
                              !.kind = kind, !.translate = translate,
                              !.context = context, !.correct_typos = correctTypos,
                              !.summarize = summarize, !.env = env,
                              !.segs = Segments(lengths)]
  /\ UNCHANGED <<usage, usage0, callVars, reqVars, svcVars, tr, sm>>

\* transcribe_video: extract_audio_from_video, then transcribe_audio.
PipeExtract(ok) ==
  /\ pipe.pc = "started"
  /\ pipe' = IF ok THEN PipeLog([pipe EXCEPT !.pc = "extracted"], [stage |-> "extraction"])
             ELSE PipeRaise(pipe, "RuntimeError", "extraction")
  /\ UNCHANGED <<usage, usage0, callVars, reqVars, svcVars, tr, sm>>

\* model.transcribe(audio, ...) / engine.extract_text(path, ocr_type).
PipeAnalyse(ok) ==
  /\ pipe.pc = "extracted"
  /\ pipe' = IF ~ok THEN PipeRaise(pipe, "RuntimeError", "analysis")
             ELSE PipeLog([pipe EXCEPT !.pc = IF pipe.kind = "ocr_api" THEN "corrected"
                                               ELSE "analysed",
                                       !.text = IF pipe.kind = "ocr_api"
                                                  THEN << Join(pipe.segs, FALSE) >>
                                                  ELSE << >>],
                          [stage |-> "analysis"])
  /\ UNCHANGED <<usage, usage0, callVars, reqVars, svcVars, tr, sm>>

\* transcribe_audio, "Translate segments immediately if requested": a new
\* TextTranslator and translate_text on every raw segment, right after
\* model.transcribe.
PipeTranslateSegments(outs) ==
  /\ pipe.pc = "analysed"
  /\ outs \in [DOMAIN pipe.segs -> Outcomes]
  /\ pipe' =
       IF ~(pipe.translate /\ pipe.env.translation_available)
         THEN [pipe EXCEPT !.pc = "translated_segments"]
       ELSE IF ~pipe.env.langdetect
         THEN PipeRaise([pipe EXCEPT !.translation_failed = TRUE], "ImportError",
                        "translation")
       ELSE LET r == TranslateSegments(pipe.segs, 1, FALSE, pipe.context,
                                       pipe.env.nllb_available, outs)
            IN PipeLog([pipe EXCEPT !.pc = "translated_segments"],
                       [stage |-> "translation", calls |-> r.calls])
  /\ UNCHANGED <<usage, usage0, callVars, reqVars, svcVars, tr, sm>>

\* whisperx.align and _convert_to_result_format: text is the join of the
\* segment texts.
PipeAlign(ok) ==
  /\ pipe.pc = "translated_segments"
  /\ pipe' = IF ok THEN [pipe EXCEPT !.pc = "converted",
                                     !.text = << Join(pipe.segs, FALSE) >>]
             ELSE PipeRaise(pipe, "RuntimeError", "analysis")
  /\ UNCHANGED <<usage, usage0, callVars, reqVars, svcVars, tr, sm>>

\* "if correct_typos and TYPO_CORRECTOR_AVAILABLE:": the right operand is
\* evaluated only when correct_typos is true, and a name that is not bound
\* raises NameError, outside the inner try and inside the outer one, which
\* logs and re-raises.
PipeCorrectTypos ==
  /\ pipe.pc = "converted"
  /\ pipe' = IF pipe.correct_typos /\ "TYPO_CORRECTOR_AVAILABLE" \notin CoreGlobals
               THEN PipeRaise(pipe, "NameError", "typo")
             ELSE PipeLog([pipe EXCEPT !.pc = "corrected"], [stage |-> "typo"])
  /\ UNCHANGED <<usage, usage0, callVars, reqVars, svcVars, tr, sm>>

\* transcribe_audio, "Optional translation": translate_text on every segment
\* of the result, translated_text the join of the segments' translations.
\* transcribe_video then puts the video's name in front of text.
\* The image endpoint: translate_text once on the whole text inside try/except,
\* get_translator turning a failed TextTranslator() into HTTPException.
PipeTranslate(outs) ==
  /\ pipe.pc = "corrected"
  /\ outs \in [DOMAIN pipe.segs -> Outcomes]
  /\ LET r == TranslateSegments(pipe.segs, 1, FALSE, pipe.context,
                                pipe.env.nllb_available, outs)
         event == [stage |-> "translation", calls |-> r.calls]
         named == [pipe EXCEPT !.pc = "returned",
                               !.text = IF pipe.kind = "cli"
                                          THEN << Join(pipe.segs, TRUE) >> ELSE @]
         failed == [named EXCEPT !.translation_failed = TRUE]
         some == \E i \in DOMAIN r.values : r.values[i] = << >>
         tried == [named EXCEPT !.translation_failed = some]
     IN pipe' =
          IF pipe.kind = "ocr_api"
            THEN IF ~(pipe.translate /\ pipe.segs # << >>) THEN named
                 ELSE IF ~pipe.env.langdetect
                   THEN IF ExceptException("HTTPException") THEN failed
                        ELSE PipeRaise(failed, "HTTPException", "translation")
                 ELSE PipeLog([tried EXCEPT !.translated_text =
                                 IF r.values[1] = << >> THEN << >> ELSE << r.values[1] >>],
                              event)
          ELSE IF ~(pipe.translate /\ pipe.env.translation_available) THEN named
          ELSE IF ~pipe.env.langdetect
            THEN PipeRaise(failed, "ImportError", "translation")
          ELSE PipeLog([tried EXCEPT !.translated_text =
                          << [i \in DOMAIN r.values |-> SegmentTranslation(r.values[i])] >>],
                       event)
  /\ UNCHANGED <<usage, usage0, callVars, reqVars, svcVars, tr, sm>>

SummarizerSteps == {"init", "load", "generate"}

\* What a failing step of the summarizer raises at the caller: get_summarizer
\* of the endpoints turns a failed ContentProcessor() into HTTPException, the
\* program calls ContentProcessor() itself.
SummarizerError(kind, step) ==
  IF step = "init" THEN (IF kind = "cli" THEN "ImportError" ELSE "HTTPException")
  ELSE "RuntimeError"

\* result.text.strip() is empty: no segment text and no video name in front.
Blank(text) == text.parts = << >> /\ ~text.video

\* "text_to_summarize = result.translated_text if result.translated_text else
\* result.text": an empty join is falsy as None is.  translated_text, when
\* not None, is the sequence of the translations joined.
TextToSummarize(p) ==
  IF p.translated_text # << >> /\ p.translated_text[1] # << >>
    THEN p.translated_text[1] ELSE p.text[1]

\* The caller's summarization block: skipped unless requested and the text is
\* not blank; inside try/except Exception.  failing is the step of the
\* summarizer that raises, "none" when none does.
PipeSummarize(failing) ==
  /\ pipe.pc = "returned"
  /\ LET done == [pipe EXCEPT !.pc = "done", !.status = "ok"]
         input == TextToSummarize(pipe)
     IN pipe' =
          IF ~(pipe.summarize /\ ~Blank(pipe.text[1])) THEN done
          ELSE IF failing = "none"
            THEN PipeLog([done EXCEPT !.summarized_content = << [summary_of |-> input] >>],
                         [stage |-> "summarization", text |-> input])
          ELSE IF ExceptException(SummarizerError(pipe.kind, failing))
            THEN [done EXCEPT !.summary_failed = failing]
          ELSE PipeRaise([pipe EXCEPT !.summary_failed = failing],
                         SummarizerError(pipe.kind, failing), "summarization")
  /\ UNCHANGED <<usage, usage0, callVars, reqVars, svcVars, tr, sm>>

\* The response is out; the next request can come.
PipeFinish ==
  /\ pipe.pc \in {"done", "failed"}
  /\ pipe' = IdlePipe
  /\ UNCHANGED <<usage, usage0, callVars, reqVars, svcVars, tr, sm>>

\* ------------------------------------------- summarizer (summarizer/core.py)

\* summarize: len(text) > 2000.
SummaryThreshold == 2000
\* summarize: self._chunk_text(text, chunk_size=1300).
SummaryChunkSize == 1300

\* Most sentences in a text.
MaxSentences == 3

\* Lengths of the sentences.  A sentence runs up to and including its closing
\* ".", "!" or "?" and holds no whitespace after such a mark.
SentenceLengths == {649, 650, 699, 1400}

\* Lengths of the whitespace between two sentences and around the text.
GapLengths == {1, 2}
MarginLengths == {0, 1}

\* A text is given by its sentences and the whitespace between and around
\* them: lead whitespace, sentence, gap, sentence, ..., trail whitespace, the
\* gaps of one text being equally long.
Documents ==
  UNION { [lead : MarginLengths, sents : [1..n -> SentenceLengths],
           gap : GapLengths, trail : IF n = 0 THEN {0} ELSE MarginLengths]
          : n \in 0..MaxSentences }

RECURSIVE Sum(_)
Sum(lens) == IF lens = << >> THEN 0 ELSE Head(lens) + Sum(Tail(lens))

\* len(text)
DocLen(doc) ==
  doc.lead + Sum(doc.sents) + doc.trail
    + (IF doc.sents = << >> THEN 0 ELSE doc.gap * (Len(doc.sents) - 1))

\* re.split(r'(?<=[.!?])\s+', text.strip()): the whitespace around the text
\* and between the sentences is dropped.  An empty text gives one empty
\* string, which adds nothing to a chunk.
SplitSentences(doc) == doc.sents

\* len of sentences joined by single spaces.
ChunkLen(chunk) == IF chunk = << >> THEN 0 ELSE Sum(chunk) + Len(chunk) - 1

\* The loop of _chunk_text from sentence i on: current is the chunk being
\* filled, as the sentences in it; a sentence that does not fit closes it.
RECURSIVE ChunkLoop(_, _, _, _, _)
ChunkLoop(sentences, i, current, chunks, chunk_size) ==
  IF i > Len(sentences)
    THEN IF current # << >> THEN Append(chunks, current) ELSE chunks
  ELSE IF ChunkLen(current) + sentences[i] > chunk_size
    THEN ChunkLoop(sentences, i + 1, << sentences[i] >>,
                   IF current # << >> THEN Append(chunks, current) ELSE chunks,
                   chunk_size)
  ELSE ChunkLoop(sentences, i + 1, Append(current, sentences[i]), chunks, chunk_size)

\* _chunk_text
ChunkText(doc, chunk_size) == ChunkLoop(SplitSentences(doc), 1, << >>, << >>, chunk_size)

NeedsChunkingInclusive(doc) == DocLen(doc) >= SummaryThreshold

\* summarize: "if len(text) > 2000"
NeedsChunking(doc) == DocLen(doc) > SummaryThreshold

\* What _generate_summary is called on, and what it returns for it.
WholeText(doc) == [kind |-> "text", of |-> << doc >>]
Chunk(chunk) == [kind |-> "chunk", of |-> chunk]
Merged(partials) == [kind |-> "merged", of |-> partials]
Summary(input) == [summary_of |-> input]

\* summarize: the inputs of the _generate_summary calls, in order.
GenerationInputs(doc) ==
  IF NeedsChunking(doc)
    THEN LET chunks == ChunkText(doc, SummaryChunkSize)
             partials == [i \in DOMAIN chunks |-> Summary(Chunk(chunks[i]))]
         IN [i \in DOMAIN chunks |-> Chunk(chunks[i])] \o << Merged(partials) >>
  ELSE << WholeText(doc) >>

SummaryStyles == {"bullet_points", "paragraph", "both", "structured"}

\* summarize: an unknown summary_style becomes "structured".
NormalStyle(style) == IF style \in SummaryStyles THEN style ELSE "structured"

\* Where a summarize call fails: see SummarizeCall.
FailPoints == {-1, 0, 2}

\* A ContentProcessor on which no call is running and whose models are not
\* loaded.
IdleSm ==
  [pc |-> "idle", op |-> "", doc |-> << >>, chunk_size |-> 0, style |-> "",
   chunks |-> << >>, calls |-> << >>, out |-> << >>, raised |-> FALSE,
   loaded |-> FALSE, load_failed |-> FALSE]

\* _load_model: nothing to do once loaded; otherwise the four from_pretrained
\* calls, any of which can raise, and then _loaded = True.
LoadModel(loaded, loadOk) == [loaded |-> loaded \/ loadOk, raised |-> ~loaded /\ ~loadOk]

\* summarize(text, summary_style=style) is called and returns or raises.
\* failAt is 0 when nothing raises, -1 when loading the model raises, and n
\* when the n-th call of _generate_summary raises (nothing raises when there
\* is no n-th call).
SummarizeCall(doc, style, failAt) ==
  /\ sm.pc = "idle"
  /\ LET load == LoadModel(sm.loaded, failAt # -1)
         inputs == GenerationInputs(doc)
         made == IF load.raised THEN << >>
                 ELSE IF failAt \in 1..Len(inputs) THEN SubSeq(inputs, 1, failAt)
                 ELSE inputs
         failed == load.raised \/ failAt \in 1..Len(inputs)
     IN sm' = [IdleSm EXCEPT !.pc = "done", !.op = "summarize", !.doc = << doc >>,
                             !.chunk_size = SummaryChunkSize,
                             !.style = NormalStyle(style),
                             !.chunks = IF NeedsChunking(doc) /\ ~load.raised
                                          THEN ChunkText(doc, SummaryChunkSize)
                                          ELSE << >>,
                             !.calls = made,
                             !.out = IF failed THEN << >>
                                     ELSE << [style |-> NormalStyle(style),
                                              text |-> Summary(inputs[Len(inputs)])] >>,
                             !.raised = failed,
                             !.loaded = load.loaded,
                             !.load_failed = load.raised]
  /\ UNCHANGED <<usage, usage0, callVars, reqVars, svcVars, tr, pipe>>

\* answer_question(question, context) is called and returns or raises:
\* _load_model, then the tokenizer, generate and decode.
AnswerQuestionCall(loadOk, generateOk) ==
  /\ sm.pc = "idle"
  /\ LET load == LoadModel(sm.loaded, loadOk)
         failed == load.raised \/ ~generateOk
     IN sm' = [IdleSm EXCEPT !.pc = "done", !.op = "answer_question",
                             !.out = IF failed THEN << >>
                                     ELSE << [style |-> "answer",
                                              text |-> Summary(<< "question", "context" >>)] >>,
                             !.raised = failed,
                             !.loaded = load.loaded,
                             !.load_failed = load.raised]
  /\ UNCHANGED <<usage, usage0, callVars, reqVars, svcVars, tr, pipe>>

\* Chunk sizes _chunk_text is called with.
ChunkSizes == {SummaryChunkSize, 700}

\* _chunk_text(text, chunk_size) is called and returns.
ChunkTextCall(doc, chunk_size) ==
  /\ sm.pc = "idle"
  /\ sm' = [IdleSm EXCEPT !.pc = "done", !.op = "chunk_text", !.doc = << doc >>,
                          !.chunk_size = chunk_size,
                          !.chunks = ChunkText(doc, chunk_size),
                          !.loaded = sm.loaded]
  /\ UNCHANGED <<usage, usage0, callVars, reqVars, svcVars, tr, pipe>>

\* The caller has taken the result; the instance keeps its models.
SummarizeReturn ==
  /\ sm.pc = "done"
  /\ sm' = [IdleSm EXCEPT !.loaded = sm.loaded]
  /\ UNCHANGED <<usage, usage0, callVars, reqVars, svcVars, tr, pipe>>


\* ------------------------------------- DBService calls (db_service.py)

StoreOps == {"upload_file", "save_file_record", "get_usage_metrics", "update_usage_metrics"}

\* The requests a method sends to the store: none without a client, none for
\* an upload of a file that does not exist, two for update_usage_metrics (its
\* fetch and its insert or update), one otherwise.
StoreRequests(op, clientUp, exists) ==
  IF ~clientUp THEN 0
  ELSE CASE op = "upload_file" -> IF exists THEN 1 ELSE 0
         [] op = "update_usage_metrics" -> 2
         [] OTHER -> 1

\* update_usage_metrics as one call: None without a client; the fetch, then
\* the insert ({"status": "created"}) or the update (its response); None when
\* the write raises.
UpdateUsageMetrics(table, clientUp, user_id, minutes_added, storage_added_bytes, fetchRaised, writeRaised) ==
  IF ~clientUp THEN [table |-> table, out |-> << >>]
  ELSE LET current == GetUsageMetrics(table, clientUp, user_id, fetchRaised)
       IN [table |-> WriteUsageMetrics(table, user_id, current, minutes_added,
                                       storage_added_bytes, writeRaised),
           out |-> IF writeRaised THEN << >>
                   ELSE IF current = NoRow THEN << "created" >> ELSE << "response" >>]

\* No DBService call running; count calls were made, op the last of them.
IdleDb == [pc |-> "idle", op |-> "", prev |-> "", out |-> << >>, raised |-> FALSE,
           requests |-> 0, count |-> 0]

\* One of the four methods is called on db_service and returns.  first and
\* second are whether its first and second store request raise.
StoreCall(op, user_id, delta, f, exists, first, second) ==
  /\ db.pc = "idle"
  /\ db.count < MaxStoreCalls
  /\ LET path == TempPath(1, f.suffix)
         updated == UpdateUsageMetrics(usage, client, user_id, delta.minutes_added,
                                       delta.storage_added_bytes, first, second)
         got == GetUsageMetrics(usage, client, user_id, first)
         out == CASE op = "upload_file" -> UploadFile(client, path, exists, first)
                  [] op = "save_file_record" ->
                       SaveFileRecord(client, f.stem \o f.suffix, first)
                  [] op = "get_usage_metrics" ->
                       IF got = NoRow THEN << >> ELSE << "row" >>
                  [] OTHER -> updated.out
     IN /\ db' = [db EXCEPT !.pc = "done", !.op = op, !.prev = db.op, !.out = out,
                            !.raised = FALSE,
                            !.requests = StoreRequests(op, client, exists),
                            !.count = @ + 1]
        /\ usage' = IF op = "update_usage_metrics" THEN updated.table ELSE usage
  /\ UNCHANGED <<usage0, callVars, reqVars, tr, pipe, sm, backends, dl>>

\* The caller has the return value.
StoreReturn ==
  /\ db.pc = "done"
  /\ db' = [db EXCEPT !.pc = "idle"]
  /\ UNCHANGED <<usage, usage0, callVars, reqVars, tr, pipe, sm, backends, dl>>

\* ------------------------------------------------- lazily created backends

\* The getters of the module-level backend objects.
Getters == {"get_transcriber", "get_summarizer", "get_processor", "get_ocr_engine"}
\* The getters whose backend is a ContentProcessor and that take model_size.
SizedGetters == {"get_summarizer", "get_processor"}
ModelSizes == {"small", "base"}

\* The attributes ContentProcessor.__init__ sets on the object.
ContentProcessorAttrs ==
  [summary_model_name |-> "csebuetnlp/mT5_multilingual_XLSum",
   qa_model_name |-> "google/flan-t5-base", loaded |-> FALSE]

\* The id-th object a getter constructed.
NewBackend(g, id) ==
  [id |-> id, attrs |-> IF g \in SizedGetters THEN ContentProcessorAttrs ELSE << >>]

\* getattr(obj, name, None).
GetAttr(obj, name) ==
  IF name \in DOMAIN obj.attrs THEN << obj.attrs[name] >> ELSE << >>

\* The condition under which a getter constructs a new object.
MustConstruct(g, model_size) ==
  \/ backends.instance[g] = << >>
  \/ /\ g \in SizedGetters
     /\ GetAttr(backends.instance[g][1], "model_size") # << model_size >>

\* No backend object exists; no getter was called.
IdleBackends ==
  [instance |-> [g \in Getters |-> << >>],
   constructed |-> [g \in Getters |-> 0],
   returned |-> [g \in Getters |-> {}],
   calls |-> 0, raised |-> FALSE]

\* One call of getter g.  initOk is whether the constructor succeeds; a
\* failing constructor leaves the global as it was and the getter raises
\* HTTPException(500).
GetBackend(g, model_size, initOk) ==
  /\ backends.calls < MaxGets
  /\ LET id == backends.constructed[g] + 1
     IN backends' =
          IF MustConstruct(g, model_size) /\ ~initOk
            THEN [backends EXCEPT !.calls = @ + 1, !.raised = TRUE]
          ELSE IF MustConstruct(g, model_size)
            THEN [backends EXCEPT !.calls = @ + 1, !.raised = FALSE,
                                  !.instance[g] = << NewBackend(g, id) >>,
                                  !.constructed[g] = id,
                                  !.returned[g] = @ \cup {id}]
          ELSE [backends EXCEPT !.calls = @ + 1, !.raised = FALSE,
                                !.returned[g] = @ \cup {backends.instance[g][1].id}]
  /\ UNCHANGED <<usage, usage0, callVars, reqVars, tr, pipe, sm, db, dl>>

\* -------------------------------------------------- downloader progress bar

ByteCounts == {0, 100, 200}
HookStatuses == {"downloading", "finished", "error"}

\* The progress dictionaries yt-dlp hands to progress_hook.  total_bytes is
\* empty when the key is absent or None; total_bytes_estimate records whether
\* the key is present, and is None when present and empty.
ProgressEvents ==
  [status : HookStatuses,
   total_bytes : {<< >>} \cup {<< b >> : b \in ByteCounts},
   total_bytes_estimate : {[has |-> FALSE, v |-> << >>], [has |-> TRUE, v |-> << >>],
                           [has |-> TRUE, v |-> << 200 >>]},
   downloaded_bytes : {0, 50}]

\* d.get('total_bytes') or d.get('total_bytes_estimate', 0); empty is None.
TotalOf(d) ==
  IF d.total_bytes # << >> /\ d.total_bytes[1] # 0 THEN d.total_bytes
  ELSE IF d.total_bytes_estimate.has THEN d.total_bytes_estimate.v ELSE << 0 >>

\* Truth value of self.pbar: None is false, a tqdm bar is true when its total
\* is positive.
HasBar(pbar) == pbar # << >> /\ pbar[1].total > 0

\* The bar after `if self.pbar: self.pbar.close(); self.pbar = None`.
CloseBar(pbar) == IF HasBar(pbar) THEN << >> ELSE pbar

\* A cleanup that closes the bar and keeps the reference.
CleanupKeepsBar(pbar) == pbar

\* cleanup(), as a function of self.pbar.
Cleanup(pbar) == CloseBar(pbar)

\* A fresh downloader: self.pbar = None.  last is the last operation on it,
\* retotal whether a bar was replaced because the total changed, inWith and
\* inDownload whether a with block and the download step of download() are
\* open, hookRaised whether progress_hook raised inside that step.
IdleDl ==
  [pbar |-> << >>, last |-> "init", retotal |-> FALSE, inWith |-> FALSE,
   inDownload |-> FALSE, hookRaised |-> FALSE, hooks |-> 0]

\* progress_hook(d).  With no positive total known the bar is left alone; a
\* None total makes the comparison raise TypeError.
ProgressHook(d) ==
  /\ dl.hooks < MaxHooks
  /\ LET total == TotalOf(d)
         recreate == dl.pbar = << >> \/ dl.pbar[1].total # total[1]
     IN dl' =
          IF d.status = "downloading" /\ total = << >>
            THEN [dl EXCEPT !.hooks = @ + 1, !.last = "hook_raised",
                            !.hookRaised = dl.inDownload]
          ELSE IF d.status = "downloading" /\ total[1] > 0
            THEN [dl EXCEPT !.hooks = @ + 1, !.last = "downloading",
                            !.pbar = << [total |-> total[1], n |-> d.downloaded_bytes] >>,
                            !.retotal = @ \/ (recreate /\ HasBar(dl.pbar))]
          ELSE IF d.status = "downloading"
            THEN [dl EXCEPT !.hooks = @ + 1, !.last = "downloading"]
          ELSE IF d.status = "finished"
            THEN [dl EXCEPT !.hooks = @ + 1, !.last = "finished",
                            !.pbar = CloseBar(dl.pbar)]
          ELSE [dl EXCEPT !.hooks = @ + 1, !.last = "ignored"]
  /\ UNCHANGED <<usage, usage0, callVars, reqVars, tr, pipe, sm, db, backends>>

\* cleanup() called directly.
CleanupCall ==
  /\ dl' = [dl EXCEPT !.pbar = Cleanup(dl.pbar), !.last = "cleanup"]
  /\ UNCHANGED <<usage, usage0, callVars, reqVars, tr, pipe, sm, db, backends>>

\* __enter__: returns self.
Enter ==
  /\ ~dl.inWith
  /\ dl' = [dl EXCEPT !.inWith = TRUE, !.last = "enter"]
  /\ UNCHANGED <<usage, usage0, callVars, reqVars, tr, pipe, sm, db, backends>>

\* __exit__, with or without an exception in flight: cleanup().
Exit(withException) ==
  /\ dl.inWith
  /\ dl' = [dl EXCEPT !.inWith = FALSE, !.pbar = Cleanup(dl.pbar),
                      !.last = IF withException THEN "exit_raising" ELSE "exit"]
  /\ UNCHANGED <<usage, usage0, callVars, reqVars, tr, pipe, sm, db, backends>>

\* download() enters its try block and yt-dlp starts calling the hook.
DownloadBegin ==
  /\ ~dl.inDownload
  /\ dl' = [dl EXCEPT !.inDownload = TRUE, !.hookRaised = FALSE,
                      !.last = "download_begin"]
  /\ UNCHANGED <<usage, usage0, callVars, reqVars, tr, pipe, sm, db, backends>>

\* The download step returns or raises; the finally clause runs cleanup().
\* It raises whenever the hook raised inside it.
DownloadEnd(raises) ==
  /\ dl.inDownload
  /\ dl.hookRaised => raises
  /\ dl' = [dl EXCEPT !.inDownload = FALSE, !.hookRaised = FALSE,
                      !.pbar = Cleanup(dl.pbar),
                      !.last = IF raises THEN "download_raised"
                               ELSE "download_returned"]
  /\ UNCHANGED <<usage, usage0, callVars, reqVars, tr, pipe, sm, db, backends>>

SvcInit ==
  /\ db = IdleDb
  /\ backends = IdleBackends
  /\ dl = IdleDl

TextInit ==
  /\ tr = NewTranslator(FALSE)
  /\ pipe = IdlePipe
  /\ sm = IdleSm
  /\ SvcInit

\* ----------------------------------------------------------- specifications

CallsInit ==
  /\ callPc = [c \in Calls |-> "ready"]
  /\ callCur = [c \in Calls |-> NoRow]
  /\ callRaised = [c \in Calls |-> FALSE]

ReqInit ==
  /\ transcriber = [w \in Workers |-> FALSE]
  /\ fs = ServerVideos
  /\ serial = 0
  /\ req = [w \in Workers |-> IdleReq]

Init ==
  /\ \E rows \in InitialRows : usage = [u \in Users |-> rows]
  /\ usage0 = usage
  /\ client \in BOOLEAN
  /\ callArgs = [c \in Calls |-> [minutes_added |-> 0, storage_added_bytes |-> 3]]
  /\ CallsInit
  /\ ReqInit
  /\ TextInit

DoReceive ==
  \E w \in Workers, a \in AuthHeaders, f \in Uploads, ar \in BOOLEAN, fr \in BOOLEAN :
    Receive(w, a, f, ar, fr) /\ UNCHANGED textVars
DoReceiveUpload ==
  \E w \in Workers, e \in {"asr_upload_audio", "asr_upload_video"}, f \in Uploads,
     bg \in BOOLEAN : ReceiveUpload(w, e, f, bg) /\ UNCHANGED textVars
DoReceiveVideo == \E w \in Workers, v \in ServerVideos : ReceiveVideo(w, v) /\ UNCHANGED textVars
DoReceiveConvert == \E w \in Workers, f \in Uploads \cup {NoFile} : ReceiveConvert(w, f) /\ UNCHANGED textVars
DoConvert == \E w \in Workers, ok \in BOOLEAN : Convert(w, "mp3", ok) /\ UNCHANGED textVars
DoTranscribeAudio == \E w \in Workers, i \in BOOLEAN, b \in BOOLEAN : TranscribeAudio(w, i, b) /\ UNCHANGED textVars
DoExtractAudio == \E w \in Workers, i \in BOOLEAN, x \in BOOLEAN : ExtractAudio(w, i, x) /\ UNCHANGED textVars
DoTranscribeExtracted == \E w \in Workers, b \in BOOLEAN : TranscribeExtracted(w, b) /\ UNCHANGED textVars
DoPersist == \E w \in Workers, u \in BOOLEAN, s \in BOOLEAN : Persist(w, u, s) /\ UNCHANGED textVars
DoUsageFetch == \E w \in Workers, raised \in BOOLEAN : UsageFetch(w, raised) /\ UNCHANGED textVars
DoUsageWrite == \E w \in Workers, raised \in BOOLEAN : UsageWrite(w, raised) /\ UNCHANGED textVars
DoRunBackground == \E w \in Workers : RunBackground(w) /\ UNCHANGED textVars
DoRespond == \E w \in Workers : Respond(w) /\ UNCHANGED textVars

\* POST /transcribe of main.py, with the quota gate and the usage ledger.
Next ==
  \/ DoReceive
  \/ DoTranscribeAudio
  \/ DoExtractAudio
  \/ DoTranscribeExtracted
  \/ DoPersist
  \/ DoUsageFetch
  \/ DoUsageWrite
  \/ DoRespond

Spec == Init /\ [][Next]_vars

\* Every endpoint that stages an upload in a temporary file: POST /transcribe
\* and the two /asr/transcribe/*/upload endpoints.
UploadNext ==
  \/ Next
  \/ DoReceiveUpload
  \/ DoRunBackground

UploadSpec == Init /\ [][UploadNext]_vars

\* The endpoints that write to a path derived from a name the caller gives:
\* POST /converter/convert/audio and the transcribe_video.py program.
StagingNext ==
  \/ DoReceiveConvert
  \/ DoConvert
  \/ DoReceiveVideo
  \/ DoExtractAudio
  \/ DoTranscribeExtracted
  \/ DoRespond

StagingSpec == Init /\ [][StagingNext]_vars

\* translate_text on a TextTranslator, called with any text and context.
TranslateInit ==
  /\ usage = [u \in Users |-> NoRow]
  /\ usage0 = usage
  /\ client = TRUE
  /\ callArgs = [c \in Calls |-> [minutes_added |-> 0, storage_added_bytes |-> 3]]
  /\ CallsInit
  /\ ReqInit
  /\ \E a \in BOOLEAN : tr = NewTranslator(a)
  /\ pipe = IdlePipe
  /\ sm = IdleSm
  /\ SvcInit

DoTranslateCall ==
  \E text \in Texts, context \in BOOLEAN, l \in BOOLEAN, n \in BOOLEAN, g \in BOOLEAN :
    TranslateCall(text, context, l, n, g)

TranslateNext ==
  \/ DoTranslateCall
  \/ TranslateReturn

TranslateSpec == TranslateInit /\ [][TranslateNext]_vars

\* One pipeline invocation after another, by any caller with any options.
PipelineInit ==
  /\ usage = [u \in Users |-> NoRow]
  /\ usage0 = usage
  /\ client = TRUE
  /\ callArgs = [c \in Calls |-> [minutes_added |-> 0, storage_added_bytes |-> 3]]
  /\ CallsInit
  /\ ReqInit
  /\ TextInit

PipelineNext ==
  \/ /\ pipe.pc = "idle"
     /\ \E kind \in PipeKinds, translate \in BOOLEAN, context \in BOOLEAN,
           correctTypos \in BOOLEAN, summarize \in BOOLEAN, env \in Environments,
           lengths \in Transcripts :
          PipeStart(kind, translate, context, correctTypos, summarize, env, lengths)
  \/ \E ok \in BOOLEAN : PipeExtract(ok)
  \/ \E ok \in BOOLEAN : PipeAnalyse(ok)
  \/ \E outs \in [DOMAIN pipe.segs -> Outcomes] : PipeTranslateSegments(outs)
  \/ \E ok \in BOOLEAN : PipeAlign(ok)
  \/ PipeCorrectTypos
  \/ \E outs \in [DOMAIN pipe.segs -> Outcomes] : PipeTranslate(outs)
  \/ \E failing \in SummarizerSteps \cup {"none"} : PipeSummarize(failing)
  \/ PipeFinish

PipelineSpec == PipelineInit /\ [][PipelineNext]_vars

\* summarize and _chunk_text on a ContentProcessor, called with any text.
SummarizeNext ==
  \/ /\ sm.pc = "idle"
     /\ \E doc \in Documents, style \in {"paragraph", "table"}, failAt \in FailPoints :
          SummarizeCall(doc, style, failAt)
  \/ /\ sm.pc = "idle"
     /\ \E doc \in Documents, chunk_size \in ChunkSizes : ChunkTextCall(doc, chunk_size)
  \/ \E loadOk \in BOOLEAN, generateOk \in BOOLEAN : AnswerQuestionCall(loadOk, generateOk)
  \/ SummarizeReturn

SummarizeSpec == PipelineInit /\ [][SummarizeNext]_vars

\* The four DBService methods called in any order with any arguments, with
\* and without a client.
StoreNext ==
  \/ /\ db.pc = "idle"
     /\ \E op \in StoreOps, user_id \in Users, delta \in Deltas, f \in Uploads,
           exists \in BOOLEAN, first \in BOOLEAN, second \in BOOLEAN :
          StoreCall(op, user_id, delta, f, exists, first, second)
  \/ StoreReturn

StoreSpec == Init /\ [][StoreNext]_vars

\* The backend getters called in any order in one server process.
BackendsNext ==
  \E g \in Getters, model_size \in ModelSizes, initOk \in BOOLEAN :
    GetBackend(g, model_size, initOk)

BackendsSpec == Init /\ [][BackendsNext]_vars

\* One downloader receiving progress events, cleaned up directly, used as a
\* context manager and running the download step of download().
DownloaderNext ==
  \/ \E d \in ProgressEvents : ProgressHook(d)
  \/ CleanupCall
  \/ Enter
  \/ \E withException \in BOOLEAN : Exit(withException)
  \/ DownloadBegin
  \/ \E raises \in BOOLEAN : DownloadEnd(raises)

DownloaderSpec == Init /\ [][DownloaderNext]_vars

\* ------------------------------------------------------- abort from outside

\* The ways a running invocation is ended from outside: an exception that is
\* not an Exception (asyncio.CancelledError, KeyboardInterrupt) is raised at
\* the point the code has reached, or the process is terminated.
AbortKinds == {"raised", "killed"}

\* transcribe_endpoint is aborted after staging.  Neither `except HTTPException`
\* nor `except Exception` matches a raised abort, so the handler's own cleanup
\* does not run; the finally clause of transcribe_video runs when the abort is
\* raised inside it.  A terminated process runs nothing.
Abort(w, how) ==
  /\ req[w].endpoint = "transcribe"
  /\ req[w].pc \in {"staged", "extracted", "analysed", "persisted", "fetched"}
  /\ fs' = IF how = "raised" /\ req[w].pc = "extracted"
             THEN UnlinkExtractedAudio(fs, req[w].temp_audio_path)
             ELSE fs
  /\ Set(w, [req[w] EXCEPT !.pc = "aborted"])
  /\ UNCHANGED <<usage, usage0, callVars, client, transcriber, serial>>

DoAbort == \E w \in Workers, how \in AbortKinds : Abort(w, how) /\ UNCHANGED textVars

AbortNext ==
  \/ Next
  \/ DoAbort

AbortSpec == Init /\ [][AbortNext]_vars

\* ------------------------------------------ ledger calls (update_usage_metrics)

LedgerUser == "u1"

OthersInFlight(c) == \E d \in Calls \ {c} : callPc[d] = "fetched"

\* update_usage_metrics, first store request: current = get_usage_metrics(user).
CallFetch(c, raised) ==
  /\ callPc[c] = "ready"
  /\ callCur' = [callCur EXCEPT ![c] = GetUsageMetrics(usage, TRUE, LedgerUser, raised)]
  /\ callRaised' = [callRaised EXCEPT ![c] = @ \/ raised]
  /\ callPc' = [callPc EXCEPT ![c] = "fetched"]
  /\ UNCHANGED <<usage, usage0, callArgs, reqVars>>

\* update_usage_metrics, second store request: insert or update, then return.
CallWrite(c, raised) ==
  /\ callPc[c] = "fetched"
  /\ usage' = WriteUsageMetrics(usage, LedgerUser, callCur[c],
                                callArgs[c].minutes_added,
                                callArgs[c].storage_added_bytes, raised)
  /\ callRaised' = [callRaised EXCEPT ![c] = @ \/ raised]
  /\ callPc' = [callPc EXCEPT ![c] = "done"]
  /\ UNCHANGED <<usage0, callArgs, callCur, reqVars>>

LedgerInit ==
  /\ \E rows \in InitialRows : usage = [u \in Users |-> rows]
  /\ usage0 = usage
  /\ callArgs \in [Calls -> Deltas]
  /\ CallsInit
  /\ client = TRUE
  /\ ReqInit
  /\ TextInit

\* Concurrent callers: the two store requests of different calls interleave
\* freely, and any store request may raise.
ConcurrentFetch == \E c \in Calls, raised \in BOOLEAN : CallFetch(c, raised) /\ UNCHANGED textVars
ConcurrentWrite == \E c \in Calls, raised \in BOOLEAN : CallWrite(c, raised) /\ UNCHANGED textVars
LedgerNext == ConcurrentFetch \/ ConcurrentWrite
LedgerSpec == LedgerInit /\ [][LedgerNext]_vars

\* Serialized callers against a reachable store: a call starts only when no
\* other call is between its fetch and its write, and no request raises.
SerialFetch == \E c \in Calls : ~OthersInFlight(c) /\ CallFetch(c, FALSE) /\ UNCHANGED textVars
SerialWrite == \E c \in Calls : CallWrite(c, FALSE) /\ UNCHANGED textVars
SerialNext == SerialFetch \/ SerialWrite
SerialLedgerSpec == LedgerInit /\ [][SerialNext]_vars

\* --------------------------------------------------------- ledger claims

RECURSIVE SumMinutes(_), SumBytes(_)
SumMinutes(S) ==
  IF S = {} THEN 0
  ELSE LET c == CHOOSE x \in S : TRUE
       IN callArgs[c].minutes_added + SumMinutes(S \ {c})
SumBytes(S) ==
  IF S = {} THEN 0
  ELSE LET c == CHOOSE x \in S : TRUE
       IN callArgs[c].storage_added_bytes + SumBytes(S \ {c})

BaseMinutes == IF usage0[LedgerUser] = << >> THEN 0
               ELSE usage0[LedgerUser][1].minutes_processed
BaseBytes == IF usage0[LedgerUser] = << >> THEN 0
             ELSE usage0[LedgerUser][1].storage_used_bytes
DoneCalls == {c \in Calls : callPc[c] = "done"}
AllCallsDone == DoneCalls = Calls

\* C3: once all concurrent update_usage_metrics calls of one user have
\* completed (none of them hit a raising store request), the stored
\* minutes_processed and storage_used_bytes equal their values before the calls
\* plus the sum of all deltas: no interleaving loses an update.
C3_NoLostUpdate ==
  (AllCallsDone /\ \A c \in Calls : ~callRaised[c]) =>
    /\ usage[LedgerUser] # << >>
    /\ \A i \in DOMAIN usage[LedgerUser] :
         /\ usage[LedgerUser][i].minutes_processed = BaseMinutes + SumMinutes(Calls)
         /\ usage[LedgerUser][i].storage_used_bytes = BaseBytes + SumBytes(Calls)

C5_CountersNeverDecrease ==
  [][\A u \in Users : \A i \in DOMAIN usage[u] :
        /\ i \in DOMAIN usage'[u]
        /\ usage'[u][i].minutes_processed >= usage[u][i].minutes_processed
        /\ usage'[u][i].storage_used_bytes >= usage[u][i].storage_used_bytes]_vars

\* C6: the usage_metrics table holds at most one row per user in every
\* reachable state.
C6_OneRowPerUser == \A u \in Users : Len(usage[u]) <= 1

\* ------------------------------------------------- gate and pipeline claims

\* What the gate's get_usage_metrics returned for request r shows the user at
\* or over the monthly limit.
OverLimit(r) ==
  /\ r.user_id # NoUser
  /\ r.quota # << >>
  /\ r.quota[1] # NoRow
  /\ r.quota[1][1].minutes_processed >= MONTHLY_LIMIT_MINUTES

PastGate(r) == r.endpoint = "transcribe" /\ r.pc # "idle" /\ r.status # 401

\* C1: in transcribe_endpoint, a request of an authenticated user whose usage
\* record, as the gate fetched it, shows minutes_processed >= 10.0 is rejected
\* with 403 before the upload is staged and before the transcriber is invoked:
\* it has no staged file and its transcriber call count is zero in every state.
C1_RejectedBeforeBackend ==
  \A w \in Workers :
    (PastGate(req[w]) /\ OverLimit(req[w])) =>
      /\ req[w].pc = "done"
      /\ req[w].status = 403
      /\ req[w].temp_path = << >>
      /\ req[w].transcriber_calls = 0
      /\ req[w].result = << >>

C1_Witness ==
  \E w \in Workers :
    /\ PastGate(req[w])
    /\ OverLimit(req[w])
    /\ req[w].quota[1][1].minutes_processed = MONTHLY_LIMIT_MINUTES
    /\ req[w].status = 403
    /\ transcriber[w]

\* C2: check_quota rejects exactly when a user id is present, a usage record
\* was returned for it and its minutes_processed >= 10.0; so 10.0 is rejected,
\* 9.999 is admitted, and a request without a user id or without a usage
\* record is admitted.
C2_RejectsExactlyOverLimit ==
  \A w \in Workers :
    PastGate(req[w]) => ((req[w].status = 403) <=> OverLimit(req[w]))

C2_Witness ==
  \E v \in Workers, w \in Workers :
    /\ PastGate(req[v])
    /\ req[v].quota = << << Row(MONTHLY_LIMIT_MINUTES - 1, 7) >> >>
    /\ req[v].status = 200
    /\ PastGate(req[w])
    /\ req[w].quota = << << Row(MONTHLY_LIMIT_MINUTES, 12) >> >>
    /\ req[w].status = 403

\* C21: once the primary analysis of a /transcribe request has succeeded, an
\* error of the store in upload_file, save_file_record or update_usage_metrics
\* stays inside DBService: the request never turns into a failure and ends
\* with status 200, with no file_id when the upload or the record failed.
C21_PersistenceErrorsSwallowed ==
  \A w \in Workers :
    (req[w].endpoint = "transcribe" /\ req[w].result # << >>) =>
      /\ req[w].status \in {0, 200}
      /\ req[w].pc = "done" => req[w].status = 200
      /\ ~client => req[w].file_id = << >>

C21_Witness ==
  \E w \in Workers :
    /\ client
    /\ serial = 1
    /\ req[w].endpoint = "transcribe"
    /\ req[w].pc = "done"
    /\ req[w].status = 200
    /\ req[w].result # << >>
    /\ req[w].file_id = << >>
    /\ req[w].usage_calls = 1
    /\ req[w].usage_args[1].minutes_added = 1500
    /\ usage = usage0

\* The request was rejected by the gate: the handler ended before staging.
Rejected(r) == r.pc = "done" /\ r.temp_path = << >> /\ r.status # 401

\* C25: a quota rejection of /transcribe reaches the caller as 403, never as
\* 500 and never as a result, and a processing failure is never reported as
\* 403: a request that staged its upload or called the transcriber does not
\* end in 403.
C25_RejectionIsDistinct ==
  \A w \in Workers :
    req[w].endpoint = "transcribe" =>
      /\ Rejected(req[w]) => req[w].status = 403 /\ req[w].result = << >>
      /\ req[w].status = 403 =>
           /\ OverLimit(req[w])
           /\ req[w].temp_path = << >>
           /\ req[w].transcriber_calls = 0
      /\ req[w].status = 500 => ~OverLimit(req[w])

C25_Witness ==
  \E v \in Workers, w \in Workers :
    /\ req[v].endpoint = "transcribe"
    /\ req[v].status = 403
    /\ Rejected(req[v])
    /\ req[w].endpoint = "transcribe"
    /\ req[w].user_id # NoUser
    /\ req[w].status = 500
    /\ req[w].transcriber_calls = 1

\* C28: update_usage_metrics is called exactly once for a finished request of
\* an authenticated user whose analysis succeeded, and never for a request
\* without a user, a rejected request or one that failed.
C28_MeteredExactlyOnce ==
  \A w \in Workers :
    req[w].endpoint = "transcribe" =>
      /\ req[w].usage_calls <= 1
      /\ req[w].usage_calls = 1 =>
           req[w].user_id # NoUser /\ req[w].result # << >> /\ req[w].status \in {0, 200}
      /\ (req[w].pc = "done" /\ req[w].user_id # NoUser /\ req[w].result # << >>)
           => req[w].usage_calls = 1

C28_Witness ==
  \E v \in Workers, w \in Workers :
    /\ req[v].endpoint = "transcribe"
    /\ req[v].pc = "done"
    /\ req[v].user_id # NoUser
    /\ req[v].status = 200
    /\ req[v].usage_calls = 1
    /\ req[w].endpoint = "transcribe"
    /\ req[w].pc = "done"
    /\ req[w].user_id = NoUser
    /\ req[w].status = 200
    /\ req[w].usage_calls = 0

\* C29: the gate fails open: when get_usage_metrics gave None to check_quota
\* because the fetch raised, the request is admitted, whatever the stored
\* minutes_processed of the user is.
C29_GateFailsOpen ==
  \A w \in Workers :
    (PastGate(req[w]) /\ req[w].user_id # NoUser /\ req[w].quota = << NoRow >>) =>
      /\ req[w].status # 403
      /\ req[w].temp_path # << >>

C29_Witness ==
  \E w \in Workers :
    /\ PastGate(req[w])
    /\ req[w].user_id # NoUser
    /\ req[w].quota = << NoRow >>
    /\ usage[req[w].user_id] # << >>
    /\ usage[req[w].user_id][1].minutes_processed >= MONTHLY_LIMIT_MINUTES
    /\ req[w].pc = "staged"

\* The minutes of the longest request: the 90-second clip, 1.5 minutes.
LongestMinutes ==
  MinutesOf(DurationSeconds(Transcript([stem |-> "clip", suffix |-> ".wav"])))

\* C30: the stored minutes_processed of a user never exceeds 10.0 plus the
\* minutes of the longest single request, however the user's requests
\* interleave.
C30_UsageBoundedByLimit ==
  \A u \in Users : \A i \in DOMAIN usage[u] :
    usage[u][i].minutes_processed <= MONTHLY_LIMIT_MINUTES + LongestMinutes

\* C7: the minutes a transcription request passes to update_usage_metrics are
\* the end of the last segment of its result divided by 60.0, and 0 when the
\* result has no segments; processing_time does not enter.
C7_MinutesFromLastSegment ==
  \A w \in Workers :
    (req[w].endpoint = "transcribe" /\ req[w].usage_args # << >>) =>
      LET segments == req[w].result[1].segments
      IN /\ req[w].user_id # NoUser
         /\ segments = << >> => req[w].usage_args[1].minutes_added = 0
         /\ segments # << >> =>
              req[w].usage_args[1].minutes_added = segments[Len(segments)].end \div 60

C7_Witness ==
  \E v \in Workers, w \in Workers :
    /\ req[v].status = 200
    /\ ~IsVideo(req[v].file)
    /\ req[v].result # << >>
    /\ req[v].result[1].segments # << >>
    /\ req[v].result[1].segments[Len(req[v].result[1].segments)].end = 90000
    /\ req[v].result[1].processing_time = 4020
    /\ req[v].usage_args = << [minutes_added |-> 1500, storage_added_bytes |-> 3] >>
    /\ req[w].status = 200
    /\ IsVideo(req[w].file)
    /\ req[w].usage_args = << [minutes_added |-> 1, storage_added_bytes |-> 5] >>

C9_StagedFileRemoved ==
  \A w \in Workers :
    req[w].pc = "done" => \A i \in DOMAIN req[w].temp_path : req[w].temp_path[i] \notin fs

\* The paths request r writes to while it runs: the converter's staged input
\* and the audio file transcribe_video extracts.
StagingPaths(r) ==
  {r.input_path[i] : i \in {j \in DOMAIN r.input_path : r.endpoint = "convert_audio"}}
    \cup {r.temp_audio_path[i] : i \in DOMAIN r.temp_audio_path}

InFlight(r) == r.pc \notin {"idle", "done"}

\* C10: no two requests that are running at the same time use the same staging
\* path.
C10_DistinctStagingPaths ==
  \A v \in Workers, w \in Workers :
    (v # w /\ InFlight(req[v]) /\ InFlight(req[w])) =>
      StagingPaths(req[v]) \cap StagingPaths(req[w]) = {}

\* C11: when an invocation is aborted from outside after staging, every temp
\* file it owns at that moment, the staged upload and the extracted audio, is
\* deleted.
C11_TempFilesRemovedOnAbort ==
  \A w \in Workers :
    req[w].pc = "aborted" =>
      /\ \A i \in DOMAIN req[w].temp_path : req[w].temp_path[i] \notin fs
      /\ \A i \in DOMAIN req[w].temp_audio_path : req[w].temp_audio_path[i] \notin fs

C17_GoogleTruncation ==
  tr.pc = "done" =>
    /\ ~tr.raised
    /\ \A i \in DOMAIN tr.calls :
         tr.calls[i].backend = "google" =>
           /\ tr.calls[i].text = tr.text
           /\ tr.calls[i].sent.src = tr.text.src
           /\ tr.text.len > GoogleLimit => tr.calls[i].sent.len = GoogleLimit
           /\ tr.text.len <= GoogleLimit => tr.calls[i].sent = tr.text
           /\ tr.out \in {<< >>, << Translated("google", tr.calls[i].sent) >>}

C17_Witness ==
  /\ tr.pc = "done"
  /\ tr.text.len = GoogleLimit + 1
  /\ tr.calls # << >>
  /\ tr.calls[Len(tr.calls)].backend = "google"
  /\ tr.calls[Len(tr.calls)].sent = Text(tr.text.src, GoogleLimit)
  /\ tr.out = << Translated("google", Text(tr.text.src, GoogleLimit)) >>

\* ------------------------------------------------------- pipeline claims

\* An event of the given stage is in the log before position i.
Before(log, stage, i) == \E j \in 1..(i - 1) : log[j].stage = stage

\* Every segment was translated: translated_text is there, not empty, and
\* holds no "NA".
TranslationSucceeded(p) ==
  /\ p.translated_text # << >>
  /\ p.translated_text[1] # << >>
  /\ \A i \in DOMAIN p.translated_text[1] : p.translated_text[1][i] # Placeholder

\* C12: the stages of an invocation run in the order extraction, primary
\* analysis, typo correction, translation, summarization: no translation call
\* comes before primary analysis and the typo correction stage are over, and
\* the text handed to summarization is the translation when translation
\* succeeded and the original text otherwise.
C12_StageOrder ==
  \A i \in DOMAIN pipe.log :
    /\ pipe.log[i].stage = "analysis" /\ pipe.kind = "cli"
         => Before(pipe.log, "extraction", i)
    /\ pipe.log[i].stage = "typo" => Before(pipe.log, "analysis", i)
    /\ pipe.log[i].stage = "translation"
         => /\ Before(pipe.log, "analysis", i)
            /\ pipe.kind # "ocr_api" => Before(pipe.log, "typo", i)
    /\ pipe.log[i].stage = "summarization"
         => /\ Before(pipe.log, "analysis", i)
            /\ pipe.translate /\ pipe.kind # "asr_api"
                 => Before(pipe.log, "translation", i) \/ pipe.translation_failed
                    \/ ~pipe.env.translation_available \/ pipe.segs = << >>
            /\ pipe.log[i].text = IF TranslationSucceeded(pipe)
                                    THEN pipe.translated_text[1] ELSE pipe.text[1]

\* C13: when translation is requested and the backend fails for some or all
\* of the text, the pipeline still completes, translated_text is None and
\* never a placeholder, and summarization gets the original text.
C13_FailedTranslationGivesNone ==
  pipe.translate /\ pipe.translation_failed
    => /\ pipe.failed_at # "translation"
       /\ pipe.translated_text = << >>
       /\ \A i \in DOMAIN pipe.log :
            pipe.log[i].stage = "summarization" => pipe.log[i].text = pipe.text[1]

\* C14: with correct_typos set, a correction stage that cannot run does not
\* make transcribe_audio fail; the result keeps the uncorrected text.
C14_TypoFailureNotFatal ==
  pipe.correct_typos /\ pipe.pc \in {"corrected", "returned", "done", "failed"}
    => /\ pipe.failed_at # "typo"
       /\ pipe.pc \in {"returned", "done"} => pipe.text = << Join(pipe.segs, FALSE) >>

BackendCalls(log, backend) ==
  { <<i, j>> \in (DOMAIN log) \X (1..2 * Len(SegmentNames)) :
      /\ log[i].stage = "translation"
      /\ j \in DOMAIN log[i].calls
      /\ log[i].calls[j].backend = backend }

\* C18: with translation requested, context unset and a transcript of 4500
\* characters, the NLLB backend is invoked, translated_text is populated and
\* the Google backend is never called, whatever the NLLB backend does.
C18_LongTranscriptUsesNllb ==
  /\ pipe.kind = "cli"
  /\ pipe.translate
  /\ ~pipe.context
  /\ JoinLen(pipe.segs) = 4500
  /\ pipe.pc \in {"returned", "done"}
  => /\ BackendCalls(pipe.log, "nllb") # {}
     /\ BackendCalls(pipe.log, "google") = {}
     /\ TranslationSucceeded(pipe)

\* C24: for every result transcribe_audio or transcribe_video returns, the
\* segments' texts joined in order by single spaces are the result's text.
C24_TextIsJoinOfSegments ==
  pipe.kind \in {"asr_api", "cli"} /\ pipe.pc \in {"returned", "done"}
    => pipe.text = << Join(pipe.segs, FALSE) >>

\* ------------------------------------------------------ summarizer claims

\* C19: summarize on a text of more than 2000 characters calls generation
\* once per chunk, in chunk order, and once more on the joined partial
\* summaries; on a text of at most 2000 characters it calls it exactly once,
\* on the text.
C19_GenerationCalls ==
  sm.pc = "done" /\ sm.op = "summarize" /\ ~sm.raised
    => IF DocLen(sm.doc[1]) > SummaryThreshold
         THEN /\ Len(sm.calls) = Len(sm.chunks) + 1
              /\ \A i \in DOMAIN sm.chunks : sm.calls[i] = Chunk(sm.chunks[i])
              /\ sm.calls[Len(sm.calls)] =
                   Merged([i \in DOMAIN sm.chunks |-> Summary(Chunk(sm.chunks[i]))])
       ELSE sm.calls = << WholeText(sm.doc[1]) >>

C19_Witness ==
  /\ sm.pc = "done"
  /\ sm.op = "summarize"
  /\ ~sm.raised
  /\ DocLen(sm.doc[1]) > SummaryThreshold
  /\ Len(sm.chunks) = 3
  /\ Len(sm.calls) = 4

\* C20: every chunk of _chunk_text(text, chunk_size) is at most chunk_size
\* long unless it is a single sentence longer than chunk_size; a chunk of two
\* or more sentences never exceeds chunk_size.
C20_ChunksWithinSize ==
  sm.pc = "done" =>
    \A i \in DOMAIN sm.chunks :
      \/ ChunkLen(sm.chunks[i]) <= sm.chunk_size
      \/ Len(sm.chunks[i]) = 1 /\ sm.chunks[i][1] > sm.chunk_size

\* C26: summarize and answer_question return None and raise nothing when
\* loading the model fails.
C26_LoadFailureGivesNone ==
  sm.pc = "done" /\ sm.load_failed => ~sm.raised /\ sm.out = << >>

\* ------------------------------------------------------- DBService claims

\* C22: without a store client each of upload_file, save_file_record,
\* get_usage_metrics and update_usage_metrics returns None, raises nothing
\* and sends no request to the store, whatever its arguments and whatever
\* calls came before.
C22_NoClientNoOp ==
  db.pc = "done" /\ ~client
    => /\ db.out = << >>
       /\ ~db.raised
       /\ db.requests = 0
       /\ usage = usage0

C22_Witness ==
  /\ ~client
  /\ db.pc = "done"
  /\ db.op = "update_usage_metrics"
  /\ db.prev = "get_usage_metrics"
  /\ db.count = 3
  /\ usage0["u1"] # << >>
  /\ db.out = << >>

\* ------------------------------------------------- backend getter claims

\* C23: across the calls of get_transcriber, get_summarizer, get_processor and
\* get_ocr_engine in one server process each backend object is constructed at
\* most once and every caller is handed that same instance, whatever
\* model_size the calls pass.
C23_BackendsConstructedOnce ==
  \A g \in Getters :
    /\ backends.constructed[g] <= 1
    /\ Cardinality(backends.returned[g]) <= 1

\* ----------------------------------------------------- downloader claims

\* C27: the progress bar reference is None after a 'finished' event, after
\* cleanup(), after leaving the context manager with or without an exception
\* and after the download step of download() returned or raised, whatever
\* 'downloading' events came before.
C27_BarReleased ==
  dl.last \in {"finished", "cleanup", "exit", "exit_raising",
               "download_returned", "download_raised"}
    => dl.pbar = << >>

C27_Witness ==
  /\ dl.last = "download_raised"
  /\ dl.retotal
  /\ dl.hooks = 3
  /\ dl.pbar = << >>

====
